---------------------------- MODULE Spec2Model ----------------------------
(***************************************************************************)
(* hwloc2nffg: conversion of an hwloc topology tree into an NFFG (nodes,   *)
(* service access points and edges).  The module models                    *)
(* src/hwloc2nffg/src/hwloc2nffg.cpp: the ID allocator, the classification *)
(* predicates, the naming rule and the recursive traversal add_nodes,      *)
(* unrolled into an explicit call stack.                                   *)
(***************************************************************************)
EXTENDS Integers, Sequences, FiniteSets, TLC

VARIABLES
    topology,     \* the loaded hwloc tree: objects 1..n in pre-order, 1 is the root
    pc,           \* position of main / add_topology_tree
    stack,        \* call stack of add_nodes: frames [obj, i, allports]
    id,           \* the ID object: [lastfreeid, lastfreeidfortype]
    node_infras,  \* Json array
    node_saps,    \* Json array
    node_edges,   \* Json array
    result,       \* return value of each completed add_nodes call, by object
    heap,         \* objects allocated with new and not deleted
    root,         \* the Json root handed to the writer
    printed       \* what each run of the program wrote to standard output

vars == <<topology, pc, stack, id, node_infras, node_saps, node_edges,
          result, heap, root, printed>>

-----------------------------------------------------------------------------
(* Bounds of the model *)

\* largest number of objects in a topology tree
MaxNodes == 3

\* number of times the program is run on the same topology
MaxRuns == 2

-----------------------------------------------------------------------------
(* C values *)

\* (unsigned) -1, the os_index of an object that has none.  The counters of
\* class ID are unsigned int as well; they stay below twice the number of
\* objects, far from 2^32, so their arithmetic is written without the modulus.
UnknownIndex == -1

\* a pointer is a sequence of length at most one: <<>> is the null pointer
NULL == <<>>

Ptr(x) == <<x>>

Deref(p) == p[1]

\* a C string as the sequence of its characters' codes
Str_address == <<97, 100, 100, 114, 101, 115, 115>>

Str_Address == <<65, 100, 100, 114, 101, 115, 115>>

Str_ADDRESS == <<65, 68, 68, 82, 69, 83, 83>>

Str_addr == <<97, 100, 100, 114>>

Str_Backend == <<66, 97, 99, 107, 101, 110, 100>>

\* tolower of the C locale
ToLower(c) == IF c >= 65 /\ c <= 90 THEN c + 32 ELSE c

\* the character at position k of a nul-terminated string
CharAt(s, k) == IF k <= Len(s) THEN s[k] ELSE 0

RECURSIVE StrcasecmpFrom(_, _, _)
StrcasecmpFrom(a, b, k) ==
    LET ca == ToLower(CharAt(a, k))
        cb == ToLower(CharAt(b, k))
    IN  IF ca # cb THEN ca - cb
        ELSE IF ca = 0 THEN 0
        ELSE StrcasecmpFrom(a, b, k + 1)

\* a variant of strcasecmp that compares case-sensitively, as strcmp does
strcmp_exact(a, b) == IF a = b THEN 0 ELSE 1

\* strcasecmp(3): 0 exactly when the strings are equal ignoring case
strcasecmp(a, b) == StrcasecmpFrom(a, b, 1)

-----------------------------------------------------------------------------
(* hwloc objects *)

HWLOC_OBJ_MACHINE == "HWLOC_OBJ_MACHINE"

HWLOC_OBJ_CORE == "HWLOC_OBJ_CORE"

HWLOC_OBJ_PU == "HWLOC_OBJ_PU"

HWLOC_OBJ_BRIDGE == "HWLOC_OBJ_BRIDGE"

HWLOC_OBJ_OS_DEVICE == "HWLOC_OBJ_OS_DEVICE"

Info(k, v) == [name |-> k, value |-> v]

Obj(t, idx, nm, infos) ==
    [type |-> t, os_index |-> idx, name |-> nm, infos |-> infos]

\* the attribute combinations an object of the tree is drawn from: a
\* processing unit, a core and a machine with and without an OS index, a bus
\* carrying an address key, network devices with and without a name whose
\* address key is spelt "Address" and "address", and a device without one
ObjKinds ==
    { Obj(HWLOC_OBJ_PU, 0, NULL, <<>>),
      Obj(HWLOC_OBJ_CORE, 3, NULL, <<>>),
      Obj(HWLOC_OBJ_MACHINE, UnknownIndex, NULL, <<>>),
      Obj(HWLOC_OBJ_BRIDGE, UnknownIndex, NULL,
          <<Info(Str_ADDRESS, "00:11:22:33:44:55")>>),
      Obj(HWLOC_OBJ_OS_DEVICE, UnknownIndex, Ptr("PU#0"),
          <<Info(Str_Backend, "x"), Info(Str_Address, "00:11:22:33:44:55")>>),
      Obj(HWLOC_OBJ_OS_DEVICE, UnknownIndex, NULL,
          <<Info(Str_addr, "y"), Info(Str_address, "00:11:22:33:44:55")>>),
      Obj(HWLOC_OBJ_OS_DEVICE, UnknownIndex, Ptr("sda"),
          <<Info(Str_Backend, "x"), Info(Str_addr, "y")>>) }

RECURSIVE AncestorsOrSelf(_, _)
AncestorsOrSelf(parent, j) ==
    IF j = 0 THEN {} ELSE {j} \cup AncestorsOrSelf(parent, parent[j])

\* parent vectors of the ordered trees with n objects numbered in pre-order
TreeShapes(n) ==
    { parent \in [1..n -> 0..(n - 1)] :
        /\ parent[1] = 0
        /\ \A j \in 2..n : parent[j] \in AncestorsOrSelf(parent, j - 1) }

RECURSIVE SortedSeq(_)
SortedSeq(S) ==
    IF S = {} THEN <<>>
    ELSE LET m == CHOOSE x \in S : \A y \in S : x <= y
         IN  <<m>> \o SortedSeq(S \ {m})

\* the tree as hwloc presents it: each object with its children array
MakeTopology(n, parent, kind) ==
    [o \in 1..n |->
        LET ch == SortedSeq({j \in 1..n : parent[j] = o})
        IN  [type |-> kind[o].type,
             os_index |-> kind[o].os_index,
             name |-> kind[o].name,
             infos |-> kind[o].infos,
             infos_count |-> Len(kind[o].infos),
             arity |-> Len(ch),
             children |-> ch]]

hwloc_get_root_obj(t) == 1

-----------------------------------------------------------------------------
(* class ID *)

NewID == [lastfreeid |-> 0, lastfreeidfortype |-> [t \in {} |-> 0]]

\* a variant of get_next_id_for_type that leaves the counter as it was
get_next_id_for_type_no_increment(idobj, nodetype) ==
    LET m0 == idobj.lastfreeidfortype
        m1 == IF nodetype \notin DOMAIN m0 THEN m0 @@ (nodetype :> 0) ELSE m0
    IN  [ret |-> m1[nodetype],
         id  |-> [idobj EXCEPT !.lastfreeidfortype = m1]]

\* returns [ret, id]: the value returned and the ID object afterwards
get_next_id_for_type(idobj, nodetype) ==
    LET m0 == idobj.lastfreeidfortype
        m1 == IF nodetype \notin DOMAIN m0 THEN m0 @@ (nodetype :> 0) ELSE m0
        n  == m1[nodetype]
    IN  [ret |-> n,
         id  |-> [idobj EXCEPT !.lastfreeidfortype =
                     [m1 EXCEPT ![nodetype] = m1[nodetype] + 1]]]

get_next_global_id(idobj) ==
    [ret |-> idobj.lastfreeid,
     id  |-> [idobj EXCEPT !.lastfreeid = idobj.lastfreeid + 1]]

-----------------------------------------------------------------------------
(* classification and naming *)

RECURSIVE InfoLoop(_, _)
InfoLoop(node, info_i) ==
    IF info_i >= node.infos_count THEN FALSE
    ELSE IF strcasecmp(node.infos[info_i + 1].name, Str_address) = 0 THEN TRUE
    ELSE InfoLoop(node, info_i + 1)

network_sap(node) ==
    IF node.type = HWLOC_OBJ_OS_DEVICE THEN InfoLoop(node, 0) ELSE FALSE

\* a variant of required_by_type that requires every OS device
required_by_type_any_os_device(node) ==
    node.type = HWLOC_OBJ_PU \/ node.type = HWLOC_OBJ_OS_DEVICE

required_by_type(node) ==
    IF node.type = HWLOC_OBJ_PU THEN TRUE
    ELSE IF node.type = HWLOC_OBJ_OS_DEVICE THEN network_sap(node)
    ELSE FALSE

\* hwloc_obj_type_snprintf: the short printable name of the object's type.
\* The text is made by the hwloc library; what matters here is that it is a
\* fixed string for each type, free of '#' and '!'.
get_node_type(obj) ==
    CASE obj.type = HWLOC_OBJ_PU        -> "PU"
      [] obj.type = HWLOC_OBJ_CORE      -> "Core"
      [] obj.type = HWLOC_OBJ_MACHINE   -> "Machine"
      [] obj.type = HWLOC_OBJ_BRIDGE    -> "Bus"
      [] obj.type = HWLOC_OBJ_OS_DEVICE -> "OSDev"

\* returns [ret, id]
get_node_name(obj, idobj) ==
    IF network_sap(obj) /\ obj.name # NULL
    THEN [ret |-> Deref(obj.name), id |-> idobj]
    ELSE LET type == get_node_type(obj)
         IN  IF /\ obj.type \in {HWLOC_OBJ_PU, HWLOC_OBJ_CORE, HWLOC_OBJ_MACHINE}
                /\ obj.os_index # UnknownIndex
             THEN [ret |-> type \o "#" \o ToString(obj.os_index), id |-> idobj]
             ELSE LET r == get_next_id_for_type(idobj, type)
                  IN  [ret |-> type \o "!" \o ToString(r.ret), id |-> r.id]

-----------------------------------------------------------------------------
(* add_nodes *)

\* typedef deque<pair<unsigned int, string>*> NodePorts
Pair(first, second) == [first |-> first, second |-> second]

\* an object created with new: what it is and the add_nodes call that made it
Alloc(what, o) == [what |-> what, obj |-> o]

\* the activation record of add_nodes on object o, after line 128
Frame(o) == [obj |-> o, i |-> 0, allports |-> <<>>]

\* a variant of the inner loop's body that draws one id for the edge and its
\* source port
EdgeStepOneId(acc, node_name, pit) ==
    LET e == get_next_global_id(acc.id)
        edge == [id        |-> e.ret,
                 src_node  |-> node_name,
                 src_port  |-> e.ret,
                 dst_node  |-> Deref(pit).second,
                 dst_port  |-> Deref(pit).first,
                 delay     |-> "0.1",
                 bandwidth |-> 1000]
    IN  [id    |-> e.id,
         edges |-> Append(acc.edges, edge),
         ports |-> Append(acc.ports, [id |-> e.ret])]

\* lines 151-166: the body of the inner loop, for the pair *pit
\* acc is [id, edges, ports]
EdgeStep(acc, node_name, pit) ==
    LET e == get_next_global_id(acc.id)
        p == get_next_global_id(e.id)
        edge == [id        |-> e.ret,
                 src_node  |-> node_name,
                 src_port  |-> p.ret,
                 dst_node  |-> Deref(pit).second,
                 dst_port  |-> Deref(pit).first,
                 delay     |-> "0.1",
                 bandwidth |-> 1000]
    IN  [id    |-> p.id,
         edges |-> Append(acc.edges, edge),
         ports |-> Append(acc.ports, [id |-> p.ret])]

\* lines 149-167: for (pit = (*ait)->begin(); pit != (*ait)->end(); pit++)
RECURSIVE PitLoop(_, _, _, _)
PitLoop(acc, node_name, nodeports, k) ==
    IF k > Len(nodeports) THEN acc
    ELSE PitLoop(EdgeStep(acc, node_name, nodeports[k]), node_name, nodeports, k + 1)

\* lines 147-168: for (ait = allports->begin(); ait != allports->end(); ait++)
RECURSIVE AitLoop(_, _, _, _)
AitLoop(acc, node_name, allports, k) ==
    IF k > Len(allports) THEN acc
    ELSE AitLoop(PitLoop(acc, node_name, Deref(allports[k]), 1),
                 node_name, allports, k + 1)

\* lines 176-182
SapNode(node_name, ports) ==
    [id |-> node_name, name |-> node_name, ports |-> ports]

\* a variant of the infrastructure node that gives every node the switch
\* profile
InfraNodeAlwaysSwitch(obj, node_name, ports) ==
    [id |-> node_name, name |-> node_name, ports |-> ports,
     domain |-> "INTERNAL", type |-> "SDN-SWITCH",
     resources |-> [cpu |-> 0, mem |-> 0, storage |-> 0,
                    delay |-> "0.5", bandwidth |-> 1000]]

\* lines 185-215
InfraNode(obj, node_name, ports) ==
    IF obj.type = HWLOC_OBJ_PU
    THEN [id |-> node_name, name |-> node_name, ports |-> ports,
          domain |-> "INTERNAL", type |-> "EE",
          supported |-> <<"headerDecompressor">>,
          resources |-> [cpu |-> 1, mem |-> 32000, storage |-> 150,
                         delay |-> "0.5", bandwidth |-> 1000]]
    ELSE [id |-> node_name, name |-> node_name, ports |-> ports,
          domain |-> "INTERNAL", type |-> "SDN-SWITCH",
          resources |-> [cpu |-> 0, mem |-> 0, storage |-> 0,
                         delay |-> "0.5", bandwidth |-> 1000]]

\* a variant of the test of line 137 that ignores what the children returned
KeepsRequiredOnly(frame) == required_by_type(topology[frame.obj])

\* line 137: the node is kept
Keeps(frame) ==
    IF frame.allports # <<>> THEN TRUE ELSE required_by_type(topology[frame.obj])

\* a variant of lines 218-220 that pushes the pair twice
NewNodePortsTwice(port_gid, node_name) ==
    Ptr(<<Ptr(Pair(port_gid, node_name)), Ptr(Pair(port_gid, node_name))>>)

\* lines 218-220: the NodePorts handed to the caller
NewNodePorts(port_gid, node_name) == Ptr(<<Ptr(Pair(port_gid, node_name))>>)

\* lines 131-134 in the caller: the callee's frame is gone, its result is
\* pushed when it is not NULL, and the loop moves on
ReturnTo(stk, ports) ==
    LET rest == SubSeq(stk, 1, Len(stk) - 1)
    IN  IF rest = <<>> THEN rest
        ELSE LET caller == rest[Len(rest)]
             IN  [rest EXCEPT ![Len(rest)] =
                    [caller EXCEPT
                        !.i = caller.i + 1,
                        !.allports = IF ports # NULL
                                     THEN Append(caller.allports, ports)
                                     ELSE caller.allports]]

Top == stack[Len(stack)]

-----------------------------------------------------------------------------
(* the program *)

EmptyRoot == [m \in {} |-> <<>>]

Init ==
    /\ \E n \in 1..MaxNodes :
         \E parent \in TreeShapes(n) :
           \E kind \in [1..n -> ObjKinds] :
             topology = MakeTopology(n, parent, kind)
    /\ pc = "main"
    /\ stack = <<>>
    /\ id = NewID
    /\ node_infras = <<>>
    /\ node_saps = <<>>
    /\ node_edges = <<>>
    /\ result = [o \in {} |-> NULL]
    /\ heap = {}
    /\ root = EmptyRoot
    /\ printed = <<>>

\* a variant of Main that does not construct the ID object
MainKeepsID ==
    /\ pc = "main"
    /\ pc' = "add_nodes"
    /\ node_infras' = <<>>
    /\ node_saps' = <<>>
    /\ node_edges' = <<>>
    /\ stack' = <<Frame(hwloc_get_root_obj(topology))>>
    /\ heap' = heap \cup {Alloc("allports", hwloc_get_root_obj(topology))}
    /\ UNCHANGED <<topology, id, result, root, printed>>

\* main, lines 278-279, and add_topology_tree up to the call of add_nodes on
\* the root object, lines 245-249 and 128
Main ==
    /\ pc = "main"
    /\ pc' = "add_nodes"
    /\ id' = NewID
    /\ node_infras' = <<>>
    /\ node_saps' = <<>>
    /\ node_edges' = <<>>
    /\ stack' = <<Frame(hwloc_get_root_obj(topology))>>
    /\ heap' = heap \cup {Alloc("allports", hwloc_get_root_obj(topology))}
    /\ UNCHANGED <<topology, result, root, printed>>

\* lines 130-132 and 128: the loop calls add_nodes on the next child
AddNodesCall ==
    /\ pc = "add_nodes"
    /\ stack # <<>>
    /\ Top.i < topology[Top.obj].arity
    /\ LET child == topology[Top.obj].children[Top.i + 1]
       IN  /\ stack' = Append(stack, Frame(child))
           /\ heap' = heap \cup {Alloc("allports", child)}
    /\ UNCHANGED <<topology, pc, id, node_infras, node_saps, node_edges,
                   result, root, printed>>

\* lines 137 and 224: nothing below the node and the node is not required
AddNodesPrune ==
    /\ pc = "add_nodes"
    /\ stack # <<>>
    /\ Top.i >= topology[Top.obj].arity
    /\ ~Keeps(Top)
    /\ stack' = ReturnTo(stack, NULL)
    /\ result' = result @@ (Top.obj :> NULL)
    /\ pc' = IF Len(stack) = 1 THEN "returned" ELSE pc
    /\ UNCHANGED <<topology, id, node_infras, node_saps, node_edges, heap,
                   root, printed>>

\* lines 137-221: the node is named, one edge and one port are made for each
\* pair the children returned, the upward port is made, the node is appended
\* to node_saps or node_infras and its upward port is returned
AddNodesMaterialize ==
    /\ pc = "add_nodes"
    /\ stack # <<>>
    /\ Top.i >= topology[Top.obj].arity
    /\ Keeps(Top)
    /\ \E nm \in {get_node_name(topology[Top.obj], id)} :
       \E loop \in {AitLoop([id |-> nm.id, edges |-> node_edges, ports |-> <<>>],
                            nm.ret, Top.allports, 1)} :
       \E up \in {get_next_global_id(loop.id)} :
         LET obj        == topology[Top.obj]
             node_name  == nm.ret
             port_gid   == up.ret
             ports      == Append(loop.ports, [id |-> port_gid])
             node_ports == NewNodePorts(port_gid, node_name)
         IN  /\ id' = up.id
             /\ node_edges' = loop.edges
             /\ IF network_sap(obj)
                THEN /\ node_saps' = Append(node_saps, SapNode(node_name, ports))
                     /\ UNCHANGED node_infras
                ELSE /\ node_infras' = Append(node_infras, InfraNode(obj, node_name, ports))
                     /\ UNCHANGED node_saps
             /\ heap' = heap \cup {Alloc("NodePorts", Top.obj), Alloc("pair", Top.obj)}
             /\ stack' = ReturnTo(stack, node_ports)
             /\ result' = result @@ (Top.obj :> node_ports)
    /\ pc' = IF Len(stack) = 1 THEN "returned" ELSE pc
    /\ UNCHANGED <<topology, root, printed>>

\* lines 251-253 and 281-284: the collections go into root, root is written
AddTopologyTreeReturn ==
    /\ pc = "returned"
    /\ LET r == ("node_saps" :> node_saps) @@ ("node_infras" :> node_infras)
                @@ ("edge_links" :> node_edges)
       IN  /\ root' = r
           /\ printed' = Append(printed, r)
    /\ pc' = "exit"
    /\ UNCHANGED <<topology, stack, id, node_infras, node_saps, node_edges,
                   result, heap>>

\* the program is started again on the same machine.  The stack and the heap
\* of the old process are gone; the locals of add_topology_tree have no
\* defined content until lines 245-246 construct them, which the model shows
\* by leaving in them whatever they held
Exec ==
    /\ pc = "exit"
    /\ Len(printed) < MaxRuns
    /\ pc' = "main"
    /\ stack' = <<>>
    /\ result' = [o \in {} |-> NULL]
    /\ heap' = {}
    /\ root' = EmptyRoot
    /\ UNCHANGED <<topology, id, node_infras, node_saps, node_edges, printed>>

Next ==
    \/ Main
    \/ AddNodesCall
    \/ AddNodesPrune
    \/ AddNodesMaterialize
    \/ AddTopologyTreeReturn
    \/ Exec

Spec == Init /\ [][Next]_vars

-----------------------------------------------------------------------------
(* Vocabulary of the properties *)

Objects == DOMAIN topology

ChildSet(o) == {topology[o].children[k] : k \in 1..topology[o].arity}

RECURSIVE Subtree(_)
Subtree(o) == {o} \cup UNION {Subtree(c) : c \in ChildSet(o)}

\* the key of a metadata entry is "address" in some mix of upper and lower case
IsAddressKey(key) ==
    /\ Len(key) = Len(Str_address)
    /\ \A k \in 1..Len(key) : key[k] \in {Str_address[k], Str_address[k] - 32}

HasAddressKey(o) ==
    \E k \in 1..Len(topology[o].infos) : IsAddressKey(topology[o].infos[k].name)

IsSapDevice(o) == topology[o].type = HWLOC_OBJ_OS_DEVICE /\ HasAddressKey(o)

\* a processing unit, or an OS device carrying an address key
IsRequired(o) == topology[o].type = HWLOC_OBJ_PU \/ IsSapDevice(o)

HasRequiredBelow(o) == \E d \in Subtree(o) : IsRequired(d)

\* the calls of add_nodes that have returned, and those that returned a port
Returned == DOMAIN result

Materialized == {o \in Returned : result[o] # NULL}

\* the descriptor a materialized object returned: its upward port and its name
UpPort(o) == Deref(Deref(result[o])[1]).first

UpName(o) == Deref(Deref(result[o])[1]).second

\* the output nodes, service access points first
OutNodes == node_saps \o node_infras

PortIds(node) == {node.ports[k].id : k \in 1..Len(node.ports)}

LastPort(node) == node.ports[Len(node.ports)].id

\* the positions in a sequence of output nodes of the node object o produced:
\* the one carrying o's name whose last port is o's upward port
EntriesOf(o, nodes) ==
    {k \in 1..Len(nodes) : nodes[k].name = UpName(o) /\ LastPort(nodes[k]) = UpPort(o)}

RECURSIVE SumPorts(_, _)
SumPorts(nodes, k) ==
    IF k > Len(nodes) THEN 0 ELSE Len(nodes[k].ports) + SumPorts(nodes, k + 1)

Finished == pc \in {"returned", "exit"}

\* add_topology_tree has constructed its locals
Constructed == pc # "main"

-----------------------------------------------------------------------------
(* C1 *)

\* C1: an object that is not required and has no required descendant returns
\* nothing, owns no output node and no port, and no edge refers to it: every
\* output node is the node of an object with a required object at or below
\* it, every id drawn from the global counter is an edge id or a port of such
\* a node, and both ends of every edge are such nodes.  When the root is such
\* an object the three collections end empty.
C1_PruningCorrect ==
    Constructed =>
    /\ \A o \in Returned : ~HasRequiredBelow(o) => result[o] = NULL
    /\ Len(OutNodes) = Cardinality(Materialized)
    /\ \A k \in 1..Len(OutNodes) :
          \E o \in Materialized : HasRequiredBelow(o) /\ k \in EntriesOf(o, OutNodes)
    /\ id.lastfreeid = Len(node_edges) + SumPorts(OutNodes, 1)
    /\ \A e \in 1..Len(node_edges) :
          /\ \E k \in 1..Len(OutNodes) :
                /\ OutNodes[k].name = node_edges[e].src_node
                /\ node_edges[e].src_port \in PortIds(OutNodes[k])
          /\ \E k \in 1..Len(OutNodes) :
                /\ OutNodes[k].name = node_edges[e].dst_node
                /\ node_edges[e].dst_port \in PortIds(OutNodes[k])
    /\ (Finished /\ ~HasRequiredBelow(hwloc_get_root_obj(topology))) =>
          (node_saps = <<>> /\ node_infras = <<>> /\ node_edges = <<>>)

\* a run has ended in which an object was pruned next to materialized ones
C1_Witness ==
    /\ Finished
    /\ node_edges # <<>>
    /\ \E o \in Returned : ~HasRequiredBelow(o) /\ result[o] = NULL

-----------------------------------------------------------------------------
(* C2 *)

\* the ids written into the output: the ports of the nodes, the edge ids
IdsWritten ==
    UNION {PortIds(OutNodes[k]) : k \in 1..Len(OutNodes)}
    \cup {node_edges[e].id : e \in 1..Len(node_edges)}

\* C2: at every point of the traversal all port ids and edge ids are pairwise
\* distinct, within a node, across nodes, among edges and between the two:
\* there are as many different ids as places where an id is written.
C2_GlobalIdsDistinct ==
    Cardinality(IdsWritten) = SumPorts(OutNodes, 1) + Len(node_edges)

\* a node with several ports and several edges exist
C2_Witness ==
    /\ Len(node_edges) >= 2
    /\ \E k \in 1..Len(OutNodes) : Len(OutNodes[k].ports) >= 3

-----------------------------------------------------------------------------
(* C3 *)

\* the edge joins output nodes k and l: one end is a port of k under k's name,
\* the other a port of l under l's name
Joins(edge, k, l) ==
    /\ edge.src_node = OutNodes[k].name /\ edge.src_port \in PortIds(OutNodes[k])
    /\ edge.dst_node = OutNodes[l].name /\ edge.dst_port \in PortIds(OutNodes[l])

Adjacent(k, l) ==
    \E e \in 1..Len(node_edges) :
        Joins(node_edges[e], k, l) \/ Joins(node_edges[e], l, k)

RECURSIVE ReachableFrom(_)
ReachableFrom(S) ==
    LET T == S \cup {l \in 1..Len(OutNodes) : \E k \in S : Adjacent(k, l)}
    IN  IF T = S THEN S ELSE ReachableFrom(T)

\* C3: when the traversal has ended, any two output nodes, and so any two
\* required objects that appear in the output, are joined by a path of edges
\* taken in either direction: every node is reached from the first one.
C3_OutputConnected ==
    (Finished /\ OutNodes # <<>>) => ReachableFrom({1}) = 1..Len(OutNodes)

\* two required objects in different subtrees are both in the output
C3_Witness ==
    /\ Finished
    /\ \E a, b \in Materialized :
          /\ a # b /\ IsRequired(a) /\ IsRequired(b)
          /\ a \notin Subtree(b) /\ b \notin Subtree(a)

-----------------------------------------------------------------------------
(* C4 *)

\* the root has exactly one child, a processing unit with OS index 0, and
\* there is no other object
SinglePuTopology ==
    /\ Len(topology) = 2
    /\ topology[2].type = HWLOC_OBJ_PU
    /\ topology[2].os_index = 0

\* C4 as stated: the single-PU topology yields exactly one infrastructure
\* node, "PU#0" of type "EE" with one port, and no edge.
C4_SinglePuAsStated ==
    (Finished /\ SinglePuTopology) =>
        /\ Len(node_infras) = 1
        /\ node_infras[1].name = "PU#0"
        /\ node_infras[1].type = "EE"
        /\ Len(node_infras[1].ports) = 1
        /\ node_edges = <<>>

\* the output node of the root in the single-PU topology
SinglePuRootNode == IF node_saps # <<>> THEN node_saps[1] ELSE node_infras[2]

\* C4 amended: the single-PU topology yields two output nodes and one edge.
\* The processing unit's node is the infrastructure node "PU#0" of type "EE"
\* with exactly one port; the root, having received the unit's port, has a
\* node with exactly two ports, of type "SDN-SWITCH" unless the root is itself
\* a processing unit or a SAP device; the edge runs from the root's first
\* port to the port of "PU#0".
C4_SinglePuAmended ==
    (Finished /\ SinglePuTopology) =>
        /\ Len(OutNodes) = 2
        /\ Len(node_infras) >= 1
        /\ node_infras[1].name = "PU#0"
        /\ node_infras[1].type = "EE"
        /\ Len(node_infras[1].ports) = 1
        /\ Len(SinglePuRootNode.ports) = 2
        /\ ~(IsSapDevice(1) \/ topology[1].type = HWLOC_OBJ_PU) =>
              (Len(node_infras) = 2 /\ node_infras[2].type = "SDN-SWITCH")
        /\ Len(node_edges) = 1
        /\ node_edges[1].src_node = SinglePuRootNode.name
        /\ node_edges[1].src_port = SinglePuRootNode.ports[1].id
        /\ node_edges[1].dst_node = "PU#0"
        /\ node_edges[1].dst_port = node_infras[1].ports[1].id

\* the traversal of a machine with one processing unit has ended
C4_Witness ==
    /\ Finished
    /\ SinglePuTopology
    /\ topology[1].type = HWLOC_OBJ_MACHINE

-----------------------------------------------------------------------------
(* C5 *)

JsonMembers(node) == DOMAIN node

\* C5: an OS device with an address key (in any case) is always materialized,
\* into node_saps only, with the members id, name and ports and no others;
\* an OS device without such a key is pruned when no child returned a port;
\* an object of any other type never gets into node_saps.
C5_SapClassification ==
    Constructed =>
    /\ \A o \in Returned :
          /\ IsSapDevice(o) =>
                /\ result[o] # NULL
                /\ Cardinality(EntriesOf(o, node_saps)) = 1
                /\ EntriesOf(o, node_infras) = {}
          /\ (/\ topology[o].type = HWLOC_OBJ_OS_DEVICE
              /\ ~HasAddressKey(o)
              /\ \A c \in ChildSet(o) : result[c] = NULL) => result[o] = NULL
          /\ (topology[o].type # HWLOC_OBJ_OS_DEVICE /\ result[o] # NULL) =>
                /\ EntriesOf(o, node_saps) = {}
                /\ Cardinality(EntriesOf(o, node_infras)) = 1
    /\ \A k \in 1..Len(node_saps) :
          /\ JsonMembers(node_saps[k]) = {"id", "name", "ports"}
          /\ \E o \in Materialized : IsSapDevice(o) /\ k \in EntriesOf(o, node_saps)

\* an OS device whose address key is not in lower case, an OS device without
\* the key and another object with the key have all been visited
C5_Witness ==
    /\ \E o \in Returned :
          /\ IsSapDevice(o)
          /\ \A k \in 1..Len(topology[o].infos) :
                topology[o].infos[k].name # Str_address
    /\ \E o \in Returned :
          topology[o].type = HWLOC_OBJ_OS_DEVICE /\ ~HasAddressKey(o)
    /\ \E o \in Materialized :
          topology[o].type # HWLOC_OBJ_OS_DEVICE /\ HasAddressKey(o)

-----------------------------------------------------------------------------
(* C6 *)

\* the node is named from its OS index
IndexNamed(o) ==
    /\ topology[o].type \in {HWLOC_OBJ_PU, HWLOC_OBJ_CORE, HWLOC_OBJ_MACHINE}
    /\ topology[o].os_index # UnknownIndex

NamedSap(o) == IsSapDevice(o) /\ topology[o].name # NULL

\* the node is named from the counter of its type
CounterNamed(o) == ~IndexNamed(o) /\ ~NamedSap(o)

\* the counter-named objects of o's type that were materialized before o;
\* upward ports grow in the order of materialization
EarlierOfType(o) ==
    {q \in Materialized :
        /\ CounterNamed(q)
        /\ get_node_type(topology[q]) = get_node_type(topology[o])
        /\ UpPort(q) < UpPort(o)}

\* C6: a materialized PU, core or machine with a valid OS index i is named
\* "<type>#<i>"; any other materialized object that is not a named SAP is
\* named "<type>!<n>", n counting from 0 the objects of its type named this
\* way before it; the names made from counters are pairwise distinct.
C6_Naming ==
    Constructed =>
    /\ \A o \in Materialized :
          /\ IndexNamed(o) =>
                UpName(o) = get_node_type(topology[o]) \o "#"
                            \o ToString(topology[o].os_index)
          /\ CounterNamed(o) =>
                UpName(o) = get_node_type(topology[o]) \o "!"
                            \o ToString(Cardinality(EarlierOfType(o)))
    /\ \A o, q \in Materialized :
          (CounterNamed(o) /\ CounterNamed(q) /\ o # q) => UpName(o) # UpName(q)

\* two bus objects without index or name are in the output, above a
\* processing unit named from its OS index
C6_Witness ==
    /\ \E o, q \in Materialized :
          /\ o # q
          /\ topology[o].type = HWLOC_OBJ_BRIDGE
          /\ topology[q].type = HWLOC_OBJ_BRIDGE
          /\ UpName(q) = "Bus!0"
          /\ UpName(o) = "Bus!1"
    /\ \E o \in Materialized :
          topology[o].type = HWLOC_OBJ_PU /\ UpName(o) = "PU#0"

-----------------------------------------------------------------------------
(* C7 *)

OutputIds(out) ==
    UNION {PortIds(out["node_saps"][k]) : k \in 1..Len(out["node_saps"])}
    \cup UNION {PortIds(out["node_infras"][k]) : k \in 1..Len(out["node_infras"])}
    \cup {out["edge_links"][e].id : e \in 1..Len(out["edge_links"])}

\* the position of an id among the ids of its run
Rank(x, S) == Cardinality({y \in S : y < x})

RankedNode(node, S) ==
    [node EXCEPT !.ports = [j \in 1..Len(node.ports) |-> Rank(node.ports[j].id, S)]]

RankedEdge(edge, S) ==
    [edge EXCEPT !.id = Rank(edge.id, S),
                 !.src_port = Rank(edge.src_port, S),
                 !.dst_port = Rank(edge.dst_port, S)]

\* an output with every id replaced by its rank: the names, the order of the
\* nodes and edges, the number and relative order of the ids, the endpoints
Shape(out) ==
    LET S == OutputIds(out)
    IN  [node_saps   |-> [k \in 1..Len(out["node_saps"]) |->
                            RankedNode(out["node_saps"][k], S)],
         node_infras |-> [k \in 1..Len(out["node_infras"]) |->
                            RankedNode(out["node_infras"][k], S)],
         edge_links  |-> [e \in 1..Len(out["edge_links"]) |->
                            RankedEdge(out["edge_links"][e], S)]]

-----------------------------------------------------------------------------
(* C8 *)

\* the children of o that returned a port, in child order
PortChildren(o) ==
    SelectSeq(topology[o].children, LAMBDA c : result[c] # NULL)

ParentOf(o) == CHOOSE q \in Objects : o \in ChildSet(q)

\* the output node of a materialized object
NodeOf(o) == OutNodes[CHOOSE k \in EntriesOf(o, OutNodes) : TRUE]

\* the positions in node_edges of the edges leaving o's node, in order
EdgesFrom(o) ==
    SortedSeq({e \in 1..Len(node_edges) :
                 /\ node_edges[e].src_node = UpName(o)
                 /\ node_edges[e].src_port \in PortIds(NodeOf(o))})

\* C8: a call returns nothing or exactly one descriptor.  A materialized
\* object whose children returned k descriptors has one output node with k+1
\* ports, the last being the port it returned, and emitted k edges, the j-th
\* from its j-th port to the descriptor of the j-th such child.  Every edge
\* leaves a port of the node named as its source and ends at the descriptor
\* of a materialized object; once its parent has returned, the upward port of
\* an object is the dst_port of exactly one edge; no edge touches the upward
\* port of the root.
C8_MaterializationStructure ==
    Constructed =>
    /\ \A o \in Returned : result[o] = NULL \/ Len(Deref(result[o])) = 1
    /\ \A o \in Materialized :
          /\ Cardinality(EntriesOf(o, OutNodes)) = 1
          /\ \E kids \in {PortChildren(o)} :
             \E node \in {NodeOf(o)} :
             \E out \in {EdgesFrom(o)} :
                /\ Len(node.ports) = Len(kids) + 1
                /\ LastPort(node) = UpPort(o)
                /\ Len(out) = Len(kids)
                /\ \A j \in 1..Len(kids) :
                      /\ node_edges[out[j]].src_port = node.ports[j].id
                      /\ node_edges[out[j]].dst_node = UpName(kids[j])
                      /\ node_edges[out[j]].dst_port = UpPort(kids[j])
    /\ \A e \in 1..Len(node_edges) :
          /\ \E o \in Materialized :
                /\ node_edges[e].src_node = UpName(o)
                /\ node_edges[e].src_port \in PortIds(NodeOf(o))
          /\ \E c \in Materialized :
                /\ node_edges[e].dst_node = UpName(c)
                /\ node_edges[e].dst_port = UpPort(c)
    /\ \A o \in Materialized :
          IF o = hwloc_get_root_obj(topology)
          THEN \A e \in 1..Len(node_edges) :
                  /\ node_edges[e].src_port # UpPort(o)
                  /\ node_edges[e].dst_port # UpPort(o)
          ELSE ParentOf(o) \in Returned =>
                  Cardinality({e \in 1..Len(node_edges) :
                                 node_edges[e].dst_port = UpPort(o)}) = 1

\* the traversal has ended and some object received ports from two children
C8_Witness ==
    /\ Finished
    /\ \E o \in Materialized : Len(PortChildren(o)) = 2

-----------------------------------------------------------------------------
(* C9 *)

\* C9: the names of the output nodes are pairwise distinct, so that the
\* src_node and dst_node of an edge each name exactly one node.
C9_NodeNamesDistinct ==
    \A k, l \in 1..Len(OutNodes) : k # l => OutNodes[k].name # OutNodes[l].name

-----------------------------------------------------------------------------
(* C10 *)

\* C10: when the top-level call of add_nodes has returned, nothing that the
\* traversal allocated is still allocated.
C10_NothingLeftAllocated ==
    pc = "returned" => heap = {}

=============================================================================
